---- MODULE Spec2Model ----
(***************************************************************************)
(* zc.ngi.generator: the generator-to-callback bridge.                     *)
(*                                                                         *)
(* handler()/Handler turn a generator function into something callable     *)
(* with a connection; ConnectionHandler primes the generator, registers    *)
(* itself on the connection and translates handle_input / handle_close /   *)
(* handle_exception into send / throw on the generator.                    *)
(*                                                                         *)
(* The generator (user code) is modelled by Python's generator protocol:   *)
(* a generator object is created, suspended or finished, and every resume  *)
(* of a live generator runs user code whose outcome (yield again, return,  *)
(* raise) is chosen nondeterministically.                                  *)
(***************************************************************************)
EXTENDS Integers, Sequences, FiniteSets, TLC

VARIABLES
    adapter,     \* what handler() has produced so far: nothing, the lambda, or a Handler
    start,       \* the one connection-start call of this run and what it returned
    driver,      \* the ConnectionHandler object: does it exist, is self.gen set
    gen,         \* the generator object: its state and the values it was resumed with
    connHandler, \* per connection object: the handler registered by setHandler
    trace,       \* every call the code made on its collaborators, in order
    events       \* the events delivered to the Driver, with what each returned

vars == <<adapter, start, driver, gen, connHandler, trace, events>>

----------------------------------------------------------------------------
(* Bounds and input sets                                                   *)

MaxEvents == 2          \* events delivered to the Driver in one run
MaxWrap == 2            \* distinct wrapper objects a connection adapter can have produced

RawConnections == {"c1", "c2"}
Data == {"d1", "d2"}
Reasons == {"r1"}
Owners == {"inst"}

\* A connection object: a raw transport connection (wrap = 0) or the object the
\* k-th call of the connection adapter returned for it (wrap = k).
Connections == [raw : RawConnections, wrap : 0..MaxWrap]
Raw(c) == [raw |-> c, wrap |-> 0]
NoConn == [raw |-> "none", wrap |-> 0]

\* Exception objects: class and argument.
Exc(cls, arg) == [cls |-> cls, arg |-> arg]
NoExc == Exc("none", "none")
StopIteration == Exc("StopIteration", "none")
GeneratorExit(reason) == Exc("GeneratorExit", reason)
AttributeError == Exc("AttributeError", "gen")
ValueError == Exc("ValueError", "generator already executing")
E1 == Exc("E1", "none")
E2 == Exc("E2", "none")
Reported == {E1}        \* exceptions the connection layer reports

\* What one call returns to its caller.
Returned == [t |-> "ok", exc |-> NoExc]
Raised(e) == [t |-> "raise", exc |-> e]

\* What the generator's own code does when it is run for one step.
Yield == [t |-> "yield", exc |-> NoExc]
Return == [t |-> "return", exc |-> NoExc]
Raise(e) == [t |-> "raise", exc |-> e]
NoOut == [t |-> "none", exc |-> NoExc]

\* One entry of the trace.
Call(op, conn, arg) == [op |-> op, conn |-> conn, arg |-> arg]

----------------------------------------------------------------------------
(* Python's generator protocol                                             *)

NewGen == [state |-> "created", received |-> <<>>]

\* The outcomes the generator's code can have when resumed by next()/send().
StepOutcomes == {Yield, Return, Raise(E1)}

\* The outcomes the generator's code can have when e is thrown in at its yield:
\* catch it and yield again, catch it and return, let it propagate, raise another.
ThrowOutcomes(e) == {Yield, Return, Raise(e), Raise(E2)}

\* The generator after its code ran one step with outcome out.
Ran(g, op, arg, out) ==
    [state |-> IF out.t = "yield" THEN "suspended" ELSE "finished",
     received |-> Append(g.received, <<op, arg>>)]

\* What the resume call itself gives its caller for outcome out.
ResumeResult(out) ==
    CASE out.t = "yield" -> Returned
      [] out.t = "return" -> Raised(StopIteration)
      [] OTHER -> Raised(out.exc)

\* gen.next(): a generator that is executing raises ValueError, a finished one
\* raises StopIteration; neither runs.
GenNext(g, out) ==
    IF g.state = "running"
    THEN [gen |-> g, res |-> Raised(ValueError), ran |-> FALSE]
    ELSE IF g.state = "finished"
    THEN [gen |-> g, res |-> Raised(StopIteration), ran |-> FALSE]
    ELSE [gen |-> Ran(g, "next", "none", out), res |-> ResumeResult(out), ran |-> TRUE]

\* Variant of gen.send without the check that the generator is not executing.
GenSend_NoRunningCheck(g, data, out) ==
    IF g.state = "finished"
    THEN [gen |-> g, res |-> Raised(StopIteration), ran |-> FALSE]
    ELSE [gen |-> Ran(g, "send", data, out), res |-> ResumeResult(out), ran |-> TRUE]

\* gen.send(data): a generator that is executing raises ValueError, a finished
\* one raises StopIteration; neither runs.
GenSend(g, data, out) ==
    IF g.state = "running"
    THEN [gen |-> g, res |-> Raised(ValueError), ran |-> FALSE]
    ELSE IF g.state = "finished"
    THEN [gen |-> g, res |-> Raised(StopIteration), ran |-> FALSE]
    ELSE [gen |-> Ran(g, "send", data, out), res |-> ResumeResult(out), ran |-> TRUE]

\* Variant of gen.throw that runs the generator's code even when it has finished.
GenThrow_NoFinishedCheck(g, e, out) ==
    IF g.state = "running"
    THEN [gen |-> g, res |-> Raised(ValueError), ran |-> FALSE]
    ELSE IF g.state = "created"
    THEN [gen |-> [g EXCEPT !.state = "finished"], res |-> Raised(e), ran |-> FALSE]
    ELSE [gen |-> Ran(g, "throw", e.cls, Yield), res |-> ResumeResult(Yield), ran |-> TRUE]

\* gen.throw(type, value): a generator that is executing raises ValueError; a
\* finished generator re-raises the exception thrown; one that never started
\* finishes at once with the exception.
GenThrow(g, e, out) ==
    IF g.state = "running"
    THEN [gen |-> g, res |-> Raised(ValueError), ran |-> FALSE]
    ELSE IF g.state = "finished"
    THEN [gen |-> g, res |-> Raised(e), ran |-> FALSE]
    ELSE IF g.state = "created"
    THEN [gen |-> [g EXCEPT !.state = "finished"], res |-> Raised(e), ran |-> FALSE]
    ELSE [gen |-> Ran(g, "throw", e.cls, out), res |-> ResumeResult(out), ran |-> TRUE]

----------------------------------------------------------------------------
(* ConnectionHandler                                                       *)

NoDriver == [exists |-> FALSE, hasGen |-> FALSE]

\* Variant of __init__ without the early return on StopIteration.
ConnectionHandler_init_AlwaysRegister(g, connection, out) ==
    LET r == GenNext(g, out)
        next == Call("next", NoConn, <<>>)
    IN  IF r.res.t = "raise" /\ r.res.exc.cls # "StopIteration"
        THEN [gen |-> r.gen, driver |-> NoDriver,
              calls |-> <<next>>, handlers |-> {}, result |-> r.res]
        ELSE [gen |-> r.gen, driver |-> [exists |-> TRUE, hasGen |-> TRUE],
              calls |-> <<next, Call("setattr_gen", NoConn, <<>>),
                          Call("setHandler", connection, <<>>)>>,
              handlers |-> {connection}, result |-> Returned]

\* Variant of __init__ that calls setHandler before it sets self.gen.
ConnectionHandler_init_RegisterFirst(g, connection, out) ==
    LET r == GenNext(g, out)
        next == Call("next", NoConn, <<>>)
    IN  IF r.res.t = "raise" /\ r.res.exc.cls = "StopIteration"
        THEN [gen |-> r.gen, driver |-> [exists |-> TRUE, hasGen |-> FALSE],
              calls |-> <<next>>, handlers |-> {}, result |-> Returned]
        ELSE IF r.res.t = "raise"
        THEN [gen |-> r.gen, driver |-> NoDriver,
              calls |-> <<next>>, handlers |-> {}, result |-> r.res]
        ELSE [gen |-> r.gen, driver |-> [exists |-> TRUE, hasGen |-> TRUE],
              calls |-> <<next, Call("setHandler", connection, <<>>),
                          Call("setattr_gen", NoConn, <<>>)>>,
              handlers |-> {connection}, result |-> Returned]

\* Variant of __init__ that registers on the connection before it primes the
\* generator.
ConnectionHandler_init_RegisterBeforePriming(g, connection, out) ==
    LET r == GenNext(g, out)
        next == Call("next", NoConn, <<>>)
        early == <<Call("setattr_gen", NoConn, <<>>),
                   Call("setHandler", connection, <<>>), next>>
    IN  IF r.res.t = "raise" /\ r.res.exc.cls = "StopIteration"
        THEN [gen |-> r.gen, driver |-> [exists |-> TRUE, hasGen |-> TRUE],
              calls |-> early, handlers |-> {connection}, result |-> Returned]
        ELSE IF r.res.t = "raise"
        THEN [gen |-> r.gen, driver |-> NoDriver,
              calls |-> early, handlers |-> {connection}, result |-> r.res]
        ELSE [gen |-> r.gen, driver |-> [exists |-> TRUE, hasGen |-> TRUE],
              calls |-> early, handlers |-> {connection}, result |-> Returned]

\* ConnectionHandler.__init__(gen, connection): what construction does.
\*   gen, res   the generator after gen.next() and what next() gave
\*   driver     the object under construction
\*   calls      the calls made, in order
\*   handlers   the connections setHandler(self) was called on
ConnectionHandler_init(g, connection, out) ==
    LET r == GenNext(g, out)
        next == Call("next", NoConn, <<>>)
    IN  IF r.res.t = "raise" /\ r.res.exc.cls = "StopIteration"
        THEN [gen |-> r.gen, driver |-> [exists |-> TRUE, hasGen |-> FALSE],
              calls |-> <<next>>, handlers |-> {}, result |-> Returned]
        ELSE IF r.res.t = "raise"
        THEN [gen |-> r.gen, driver |-> NoDriver,
              calls |-> <<next>>, handlers |-> {}, result |-> r.res]
        ELSE [gen |-> r.gen, driver |-> [exists |-> TRUE, hasGen |-> TRUE],
              calls |-> <<next, Call("setattr_gen", NoConn, <<>>),
                          Call("setHandler", connection, <<>>)>>,
              handlers |-> {connection}, result |-> Returned]

\* Variant of handle_input that swallows StopIteration without closing.
handle_input_NoClose(d, g, connection, data, out) ==
    IF ~d.hasGen
    THEN [gen |-> g, calls |-> <<>>, result |-> Raised(AttributeError), ran |-> FALSE]
    ELSE LET r == GenSend(g, data, out)
             send == Call("send", NoConn, <<data>>)
         IN  IF r.res.t = "raise" /\ r.res.exc.cls = "StopIteration"
             THEN [gen |-> r.gen, calls |-> <<send>>, result |-> Returned, ran |-> r.ran]
             ELSE [gen |-> r.gen, calls |-> <<send>>, result |-> r.res, ran |-> r.ran]

\* Variant of handle_input that resumes with gen.next() instead of gen.send(data).
handle_input_Next(d, g, connection, data, out) ==
    IF ~d.hasGen
    THEN [gen |-> g, calls |-> <<>>, result |-> Raised(AttributeError), ran |-> FALSE]
    ELSE LET r == GenNext(g, out)
             next == Call("next", NoConn, <<>>)
         IN  IF r.res.t = "raise" /\ r.res.exc.cls = "StopIteration"
             THEN [gen |-> r.gen, calls |-> <<next, Call("close", connection, <<>>)>>,
                   result |-> Returned, ran |-> r.ran]
             ELSE [gen |-> r.gen, calls |-> <<next>>, result |-> r.res, ran |-> r.ran]

\* Variant of handle_input that registers the Driver again on the connection
\* of the event.
handle_input_Reregister(d, g, connection, data, out) ==
    IF ~d.hasGen
    THEN [gen |-> g, calls |-> <<>>, result |-> Raised(AttributeError), ran |-> FALSE]
    ELSE LET r == GenSend(g, data, out)
             send == Call("send", NoConn, <<data>>)
         IN  IF r.res.t = "raise" /\ r.res.exc.cls = "StopIteration"
             THEN [gen |-> r.gen, calls |-> <<send, Call("close", connection, <<>>)>>,
                   result |-> Returned, ran |-> r.ran]
             ELSE [gen |-> r.gen, calls |-> <<send, Call("setHandler", connection, <<>>)>>,
                   result |-> r.res, ran |-> r.ran]

\* handle_input(connection, data)
handle_input(d, g, connection, data, out) ==
    IF ~d.hasGen
    THEN [gen |-> g, calls |-> <<>>, result |-> Raised(AttributeError), ran |-> FALSE]
    ELSE LET r == GenSend(g, data, out)
             send == Call("send", NoConn, <<data>>)
         IN  IF r.res.t = "raise" /\ r.res.exc.cls = "StopIteration"
             THEN [gen |-> r.gen, calls |-> <<send, Call("close", connection, <<>>)>>,
                   result |-> Returned, ran |-> r.ran]
             ELSE [gen |-> r.gen, calls |-> <<send>>, result |-> r.res, ran |-> r.ran]

\* Variant of handle_close whose except clause names StopIteration only.
handle_close_CatchStopOnly(d, g, connection, reason, out) ==
    IF ~d.hasGen
    THEN [gen |-> g, calls |-> <<>>, result |-> Raised(AttributeError), ran |-> FALSE]
    ELSE LET r == GenThrow(g, GeneratorExit(reason), out)
             throw == Call("throw", NoConn, <<"GeneratorExit", reason>>)
         IN  IF r.res.t = "raise" /\ r.res.exc.cls = "StopIteration"
             THEN [gen |-> r.gen, calls |-> <<throw>>, result |-> Returned, ran |-> r.ran]
             ELSE [gen |-> r.gen, calls |-> <<throw>>, result |-> r.res, ran |-> r.ran]

\* Variant of handle_close that closes the connection when the generator is
\* done with the GeneratorExit.
handle_close_ClosesOnExit(d, g, connection, reason, out) ==
    IF ~d.hasGen
    THEN [gen |-> g, calls |-> <<>>, result |-> Raised(AttributeError), ran |-> FALSE]
    ELSE LET r == GenThrow(g, GeneratorExit(reason), out)
             throw == Call("throw", NoConn, <<"GeneratorExit", reason>>)
         IN  IF r.res.t = "raise" /\ r.res.exc.cls \in {"GeneratorExit", "StopIteration"}
             THEN [gen |-> r.gen, calls |-> <<throw, Call("close", connection, <<>>)>>,
                   result |-> Returned, ran |-> r.ran]
             ELSE [gen |-> r.gen, calls |-> <<throw>>, result |-> r.res, ran |-> r.ran]

\* Variant of handle_close with a bare except clause.
handle_close_SwallowAll(d, g, connection, reason, out) ==
    IF ~d.hasGen
    THEN [gen |-> g, calls |-> <<>>, result |-> Raised(AttributeError), ran |-> FALSE]
    ELSE LET r == GenThrow(g, GeneratorExit(reason), out)
             throw == Call("throw", NoConn, <<"GeneratorExit", reason>>)
         IN  [gen |-> r.gen, calls |-> <<throw>>, result |-> Returned, ran |-> r.ran]

\* handle_close(connection, reason)
handle_close(d, g, connection, reason, out) ==
    IF ~d.hasGen
    THEN [gen |-> g, calls |-> <<>>, result |-> Raised(AttributeError), ran |-> FALSE]
    ELSE LET r == GenThrow(g, GeneratorExit(reason), out)
             throw == Call("throw", NoConn, <<"GeneratorExit", reason>>)
         IN  IF r.res.t = "raise" /\ r.res.exc.cls \in {"GeneratorExit", "StopIteration"}
             THEN [gen |-> r.gen, calls |-> <<throw>>, result |-> Returned, ran |-> r.ran]
             ELSE [gen |-> r.gen, calls |-> <<throw>>, result |-> r.res, ran |-> r.ran]

\* Variant of handle_exception that closes the connection on any exception
\* out of the generator instead of letting it through.
handle_exception_CloseOnFailure(d, g, connection, exception, out) ==
    IF ~d.hasGen
    THEN [gen |-> g, calls |-> <<>>, result |-> Raised(AttributeError), ran |-> FALSE]
    ELSE LET r == GenThrow(g, exception, out)
             throw == Call("throw", NoConn, <<exception.cls, exception.arg>>)
         IN  IF r.res.t = "raise"
             THEN [gen |-> r.gen, calls |-> <<throw, Call("close", connection, <<>>)>>,
                   result |-> Returned, ran |-> r.ran]
             ELSE [gen |-> r.gen, calls |-> <<throw>>, result |-> r.res, ran |-> r.ran]

\* handle_exception(connection, exception)
handle_exception(d, g, connection, exception, out) ==
    IF ~d.hasGen
    THEN [gen |-> g, calls |-> <<>>, result |-> Raised(AttributeError), ran |-> FALSE]
    ELSE LET r == GenThrow(g, exception, out)
             throw == Call("throw", NoConn, <<exception.cls, exception.arg>>)
         IN  [gen |-> r.gen, calls |-> <<throw>>, result |-> r.res, ran |-> r.ran]

----------------------------------------------------------------------------
(* handler() and Handler                                                   *)

NoAdapter == [type |-> "none", func |-> "none", connection_adapter |-> "none"]

\* Handler.__init__(func, connection_adapter)
Handler(func, connection_adapter) ==
    [type |-> "Handler", func |-> func, connection_adapter |-> connection_adapter]

\* handler(func=None, connection_adapter=None): without func, the lambda that
\* takes func later.
handler(func, connection_adapter) ==
    IF func = "none"
    THEN [type |-> "lambda", func |-> "none", connection_adapter |-> connection_adapter]
    ELSE Handler(func, connection_adapter)

\* The lambda handler() returned, applied to func.
handler_lambda(l, func) == Handler(func, l.connection_adapter)

\* The connection adapter called on connection: a new wrapper object around it,
\* the k-th the adapter made.
Adapt(connection, k) == [raw |-> connection.raw, wrap |-> k]

\* Variant of __call__ that hands the Driver the connection it was called with.
Handler_call_RegisterRaw(h, prefix, connection, out) ==
    LET adapted == h.connection_adapter # "none"
        last == IF adapted THEN Adapt(connection, 1) ELSE connection
        pre == IF adapted THEN <<Call("connection_adapter", connection, <<>>)>> ELSE <<>>
        c == ConnectionHandler_init(NewGen, connection, out)
    IN  [c EXCEPT !.calls = pre \o <<Call("func", last, prefix)>> \o c.calls]

\* Handler.__call__(*args), args = prefix + (connection,)
Handler_call(h, prefix, connection, out) ==
    LET adapted == h.connection_adapter # "none"
        last == IF adapted THEN Adapt(connection, 1) ELSE connection
        pre == IF adapted THEN <<Call("connection_adapter", connection, <<>>)>> ELSE <<>>
        c == ConnectionHandler_init(NewGen, last, out)
    IN  [c EXCEPT !.calls = pre \o <<Call("func", last, prefix)>> \o c.calls]

\* Handler.__get__(inst, class_): what the attribute access gives. Without an
\* instance the Handler itself, with one a callable closed over the instance.
Handler_get(h, inst) ==
    IF inst = "none"
    THEN h
    ELSE [type |-> "connected", func |-> h.func,
          connection_adapter |-> h.connection_adapter, inst |-> inst]

\* Variant of __get__ whose callable skips the connection adapter.
Handler_get_call_NoAdapter(h, inst, connection, out) ==
    LET c == ConnectionHandler_init(NewGen, connection, out)
    IN  [c EXCEPT !.calls = <<Call("func", connection, <<inst>>)>> \o c.calls]

\* Handler.__get__(inst, class_) with an instance, and the callable it returns
\* called with connection.
Handler_get_call(h, inst, connection, out) ==
    IF h.connection_adapter # "none"
    THEN LET conn == Adapt(connection, 1)
             c == ConnectionHandler_init(NewGen, conn, out)
         IN  [c EXCEPT !.calls = <<Call("connection_adapter", connection, <<>>),
                                   Call("func", conn, <<inst>>)>> \o c.calls]
    ELSE LET c == ConnectionHandler_init(NewGen, connection, out)
         IN  [c EXCEPT !.calls = <<Call("func", connection, <<inst>>)>> \o c.calls]

----------------------------------------------------------------------------
(* State machine                                                           *)

NoStart == [called |-> FALSE, form |-> "none", prefix |-> <<>>, conn |-> NoConn,
            out |-> NoOut, result |-> Returned]

Init ==
    /\ adapter = NoAdapter
    /\ start = NoStart
    /\ driver = NoDriver
    /\ gen = NewGen
    /\ connHandler = [c \in Connections |-> "none"]
    /\ trace = <<>>
    /\ events = <<>>

\* @handler / @handler(connection_adapter=...) at definition time.
MakeHandler ==
    /\ adapter.type = "none"
    /\ \E func \in {"none", "f"}, ca \in {"none", "T"} :
          adapter' = handler(func, ca)
    /\ UNCHANGED <<start, driver, gen, connHandler, trace, events>>

\* The lambda returned by handler(connection_adapter=...) decorates the function.
Decorate ==
    /\ adapter.type = "lambda"
    /\ adapter' = handler_lambda(adapter, "f")
    /\ UNCHANGED <<start, driver, gen, connHandler, trace, events>>

Started(form, prefix, connection, out, c) ==
    /\ start' = [called |-> TRUE, form |-> form, prefix |-> prefix, conn |-> connection,
                 out |-> out, result |-> c.result]
    /\ driver' = c.driver
    /\ gen' = c.gen
    /\ connHandler' = [x \in Connections |->
                          IF x \in c.handlers THEN "driver" ELSE connHandler[x]]
    /\ trace' = trace \o c.calls
    /\ UNCHANGED <<adapter, events>>

\* A connection-start: the Handler called as a free callable.
StartCall ==
    /\ adapter.type = "Handler"
    /\ ~start.called
    /\ \E prefix \in {<<>>} \cup {<<o>> : o \in Owners}, r \in RawConnections,
          out \in StepOutcomes :
          Started("call", prefix, Raw(r), out, Handler_call(adapter, prefix, Raw(r), out))

\* A connection-start: the Handler accessed on an instance and called.
StartBound ==
    /\ adapter.type = "Handler"
    /\ ~start.called
    /\ \E inst \in Owners, r \in RawConnections, out \in StepOutcomes :
          Started("bound", <<inst>>, Raw(r), out,
                  Handler_get_call(adapter, inst, Raw(r), out))

\* The Handler read as an attribute of the class, with no instance.
AccessOnClass ==
    /\ adapter.type = "Handler"
    /\ adapter' = Handler_get(adapter, "none")
    /\ UNCHANGED <<start, driver, gen, connHandler, trace, events>>

\* The connections on which the Driver is the registered handler.
Registered == {c \in Connections : connHandler[c] = "driver"}

\* The connection argument an event can carry: the connection delivering it,
\* or another connection object.
EventConnections(c) == {c} \cup {Raw(r) : r \in RawConnections \ {c.raw}}

Outs(S) == IF gen.state = "finished" \/ ~driver.hasGen THEN {NoOut} ELSE S

\* No event was dispatched while the routine ran.
NoNested == [ev |-> "none", result |-> Returned, ran |-> FALSE]

Delivered(ev, connection, arg, out, h) ==
    /\ events' = Append(events,
                        [ev |-> ev, conn |-> connection, arg |-> arg, out |-> out,
                         before |-> gen.state, after |-> h.gen.state, ran |-> h.ran,
                         result |-> h.result, nested |-> NoNested,
                         t0 |-> Len(trace)])
    /\ gen' = h.gen
    /\ trace' = trace \o h.calls
    /\ UNCHANGED <<adapter, start, driver, connHandler>>

InputEvent ==
    /\ Len(events) < MaxEvents
    /\ \E c \in Registered : \E connection \in EventConnections(c), data \in Data,
          out \in Outs(StepOutcomes) :
          Delivered("input", connection, data, out,
                    handle_input(driver, gen, connection, data, out))

CloseEvent ==
    /\ Len(events) < MaxEvents
    /\ \E c \in Registered : \E connection \in EventConnections(c), reason \in Reasons :
          \E out \in Outs(ThrowOutcomes(GeneratorExit(reason))) :
          Delivered("close", connection, reason, out,
                    handle_close(driver, gen, connection, reason, out))

ExceptionEvent ==
    /\ Len(events) < MaxEvents
    /\ \E c \in Registered : \E connection \in EventConnections(c), e \in Reported :
          \E out \in Outs(ThrowOutcomes(e)) :
          Delivered("exception", connection, e.cls, out,
                    handle_exception(driver, gen, connection, e, out))

\* The handler for an event of kind ev.
Dispatch(ev, d, g, connection, arg, out) ==
    CASE ev = "input" -> handle_input(d, g, connection, arg, out)
      [] ev = "close" -> handle_close(d, g, connection, arg, out)
      [] OTHER -> handle_exception(d, g, connection, Exc(arg, "none"), out)

\* The argument and the routine's possible outcomes for an event of kind ev.
ArgOf(ev) == CASE ev = "input" -> "d1" [] ev = "close" -> "r1" [] OTHER -> "E1"
OutcomesOf(ev) ==
    CASE ev = "input" -> StepOutcomes
      [] ev = "close" -> ThrowOutcomes(GeneratorExit(ArgOf(ev)))
      [] OTHER -> ThrowOutcomes(E1)

\* An event whose routine step, while it runs, has a second event dispatched to
\* the same Driver on the same thread (the routine calls into the connection,
\* which calls the handler back); the routine then goes on to its outcome.
\*   h   the handler of the outer event
\*   n   the handler of the inner event, called while the generator executes
ReentrantEvent ==
    /\ Len(events) < MaxEvents
    /\ driver.hasGen
    /\ gen.state = "suspended"
    /\ \E c \in Registered, ev \in {"input", "close", "exception"},
          nev \in {"input", "close", "exception"} : \E out \in OutcomesOf(ev) :
          LET h == Dispatch(ev, driver, gen, c, ArgOf(ev), out)
              n == Dispatch(nev, driver, [h.gen EXCEPT !.state = "running"], c,
                            ArgOf(nev), NoOut)
          IN  /\ events' = Append(events,
                    [ev |-> ev, conn |-> c, arg |-> ArgOf(ev), out |-> out,
                     before |-> gen.state, after |-> h.gen.state, ran |-> h.ran,
                     result |-> h.result,
                     nested |-> [ev |-> nev, result |-> n.result, ran |-> n.ran],
                     t0 |-> Len(trace)])
              /\ gen' = [state |-> h.gen.state, received |-> n.gen.received]
              /\ trace' = trace \o <<Head(h.calls)>> \o n.calls \o Tail(h.calls)
              /\ UNCHANGED <<adapter, start, driver, connHandler>>

Next ==
    \/ MakeHandler
    \/ Decorate
    \/ AccessOnClass
    \/ StartCall
    \/ StartBound
    \/ InputEvent
    \/ CloseEvent
    \/ ExceptionEvent
    \/ ReentrantEvent

Spec == Init /\ [][Next]_vars

----------------------------------------------------------------------------
(* Reading the trace                                                       *)

\* The positions of the trace holding a call of op.
CallsOf(op) == {i \in 1..Len(trace) : trace[i].op = op}

\* The positions of the trace holding the calls made while event i was handled.
EventCalls(i) ==
    {k \in 1..Len(trace) :
        /\ k > events[i].t0
        /\ k <= (IF i < Len(events) THEN events[i + 1].t0 ELSE Len(trace))}

\* The close() calls made while event i was handled.
EventCloses(i) == EventCalls(i) \cap CallsOf("close")

\* The calls made by the connection-start, before any event.
StartCalls == {k \in 1..Len(trace) : Len(events) > 0 => k <= events[1].t0}

\* The Driver's states of the specification, read off the code's state.
Active == driver.hasGen /\ gen.state = "suspended"
Done == gen.state = "finished"

----------------------------------------------------------------------------
(* Claims                                                                  *)

\* C1: for a routine that terminates before its first suspension, construction
\* never calls setHandler or close on any connection, no connection has the
\* Driver as handler, and so no event ever reaches it.
C1_NoRegistrationWhenPrimingEnds ==
    (start.called /\ start.out = Return) =>
        /\ CallsOf("setHandler") = {}
        /\ CallsOf("close") = {}
        /\ connHandler = [c \in Connections |-> "none"]
        /\ events = <<>>

C1_Witness ==
    /\ start.called
    /\ start.out = Return
    /\ driver.exists
    /\ gen.state = "finished"

\* C2: for a routine that suspended at priming and returns when resumed by the
\* first input event, handling that event leaves the Driver DONE and makes
\* exactly one close() call, on the connection of the event.
C2_FirstInputEndsWithOneClose ==
    (Len(events) >= 1 /\ events[1].ev = "input" /\ events[1].out = Return) =>
        /\ events[1].before = "suspended"
        /\ events[1].after = "finished"
        /\ Done
        /\ events[1].result = Returned
        /\ Cardinality(EventCloses(1)) = 1
        /\ \A k \in EventCloses(1) : trace[k].conn = events[1].conn

C2_Witness ==
    /\ Len(events) = 1
    /\ events[1].ev = "input"
    /\ events[1].out = Return
    /\ events[1].conn \in Registered
    /\ Cardinality(CallsOf("close")) = 1

\* C3: for a routine that yields again after every input, N input events resume
\* it exactly N times, in delivery order, the k-th resume receiving the data of
\* the k-th event; the Driver stays ACTIVE and close() is never called.
C3_LoopingRoutineReceivesEveryInputInOrder ==
    (/\ start.called
     /\ start.out = Yield
     /\ \A i \in 1..Len(events) : events[i].ev = "input" /\ events[i].out = Yield) =>
            /\ gen.received = <<<<"next", "none">>>> \o
                              [i \in 1..Len(events) |-> <<"send", events[i].arg>>]
            /\ Active
            /\ \A i \in 1..Len(events) : events[i].result = Returned
            /\ CallsOf("close") = {}

C3_Witness ==
    /\ Len(events) = MaxEvents
    /\ \A i \in 1..Len(events) : events[i].ev = "input" /\ events[i].out = Yield
    /\ events[1].arg = "d2"
    /\ events[2].arg = "d1"
    /\ Active

\* C4: a close event handled by an ACTIVE Driver returns normally and makes no
\* close() call, both when the routine catches GeneratorExit and returns and
\* when it lets GeneratorExit propagate.
C4_CloseEventRaisesNothingAndClosesNothing ==
    \A i \in 1..Len(events) :
        (/\ events[i].ev = "close"
         /\ events[i].before = "suspended"
         /\ events[i].out \in {Return, Raise(GeneratorExit(events[i].arg))}) =>
            /\ events[i].result = Returned
            /\ EventCloses(i) = {}

C4_Witness ==
    /\ Len(events) = 2
    /\ events[2].ev = "close"
    /\ events[2].before = "suspended"
    /\ events[2].out = Raise(GeneratorExit(events[2].arg))
    /\ events[2].result = Returned

\* C5: the Driver calls close() at most once over its whole lifetime, whatever
\* events are delivered after registration.
C5_CloseAtMostOnce ==
    Cardinality(CallsOf("close")) <= 1

\* C6: every close() call is made while handling an event in which the routine
\* itself ran and returned; none during construction, none during a close
\* event, none for a routine that ended by raising.
C6_CloseOnlyOnVoluntaryCompletion ==
    /\ StartCalls \cap CallsOf("close") = {}
    /\ \A i \in 1..Len(events) :
          EventCloses(i) # {} =>
              /\ events[i].ev # "close"
              /\ events[i].ran
              /\ events[i].out = Return

\* C7: when an input or exception event resumes the routine and the routine
\* raises, exactly the exception it raised reaches the caller and the event
\* makes no close() call.
C7_RoutineFailurePropagatesUnmodified ==
    \A i \in 1..Len(events) :
        (/\ events[i].ev \in {"input", "exception"}
         /\ events[i].ran
         /\ events[i].out.t = "raise") =>
            /\ events[i].result = Raised(events[i].out.exc)
            /\ EventCloses(i) = {}

C7_Witness ==
    /\ Len(events) = 1
    /\ events[1].ev = "exception"
    /\ events[1].ran
    /\ events[1].arg = "E1"
    /\ events[1].out = Raise(E2)
    /\ events[1].result = Raised(E2)

\* C8: after an exception event throws into an ACTIVE Driver's routine, the
\* outcome is relayed as on the input path: yield keeps the Driver ACTIVE,
\* return makes it DONE with a close() on the connection and a normal return of
\* the handler, raise propagates the exception.
C8_ExceptionEventRelaysLikeInput ==
    \A i \in 1..Len(events) :
        (events[i].ev = "exception" /\ events[i].before = "suspended") =>
            /\ events[i].out = Yield =>
                  events[i].after = "suspended" /\ events[i].result = Returned
            /\ events[i].out = Return =>
                  /\ events[i].after = "finished"
                  /\ events[i].result = Returned
                  /\ Cardinality(EventCloses(i)) = 1
                  /\ \A k \in EventCloses(i) : trace[k].conn = events[i].conn
            /\ events[i].out.t = "raise" =>
                  events[i].result = Raised(events[i].out.exc)

\* C9: whatever priming does (yield, return, raise), the Driver is registered as
\* a connection's handler exactly when the routine yielded; when it registers,
\* self.gen is set before setHandler is called, and every event finds the
\* generator stored and primed.
C9_RegisteredIffPrimingSuspended ==
    start.called =>
        /\ (Registered # {}) <=> (start.out = Yield)
        /\ (CallsOf("setHandler") # {}) <=> (start.out = Yield)
        /\ Registered # {} => driver.exists /\ driver.hasGen
        /\ \A k \in CallsOf("setHandler") :
              /\ trace[k - 1].op = "setattr_gen"
              /\ \A i \in 1..Len(events) : k <= events[i].t0
        /\ \A i \in 1..Len(events) :
              events[i].before # "created" /\ events[i].result # Raised(AttributeError)

C9_Witness ==
    /\ start.called
    /\ start.out = Yield
    /\ Registered # {}
    /\ Len(events) = 1
    /\ events[1].before = "suspended"

\* C10: with a connection adapter configured, a connection-start (free call or
\* bound form) calls the adapter exactly once, on the raw connection; the one
\* object it returned is the connection passed to the generator function and
\* the connection setHandler is called on; the raw connection is neither.
C10_AdapterAppliedOnceAndShared ==
    (start.called /\ adapter.connection_adapter # "none") =>
        /\ Cardinality(CallsOf("connection_adapter")) = 1
        /\ \A k \in CallsOf("connection_adapter") : trace[k].conn = start.conn
        /\ Cardinality(CallsOf("func")) = 1
        /\ \A f \in CallsOf("func") :
              /\ trace[f].conn.wrap > 0
              /\ trace[f].conn.raw = start.conn.raw
              /\ \A k \in CallsOf("setHandler") : trace[k].conn = trace[f].conn
              /\ Registered \subseteq {trace[f].conn}

C10_Witness ==
    /\ start.called
    /\ start.form = "bound"
    /\ adapter.connection_adapter # "none"
    /\ Registered = {Adapt(start.conn, 1)}
    /\ \E f \in CallsOf("func") : trace[f].conn = Adapt(start.conn, 1)

\* C11: once an ACTIVE Driver has handled a close event it is DONE, whatever
\* the routine did with the GeneratorExit, and no later event runs the routine.
C11_DoneAfterCloseEvent ==
    \A i \in 1..Len(events) :
        (events[i].ev = "close" /\ events[i].before = "suspended") =>
            /\ events[i].after = "finished"
            /\ \A j \in (i + 1)..Len(events) : ~events[j].ran

\* C12: a close event delivered to a Driver whose routine has already ended
\* returns normally, runs no routine step and makes no call on a connection.
C12_CloseEventWhenDoneIsNoOp ==
    \A i \in 1..Len(events) :
        (events[i].ev = "close" /\ events[i].before = "finished") =>
            /\ events[i].result = Returned
            /\ ~events[i].ran
            /\ events[i].after = "finished"
            /\ \A k \in EventCalls(i) : trace[k].conn = NoConn

C12_Witness ==
    /\ Len(events) = 2
    /\ events[1].ev = "input"
    /\ events[1].out = Return
    /\ events[2].ev = "close"
    /\ events[2].before = "finished"
    /\ events[2].result = Returned

\* C13: one routine step at a time: no resume is in progress between two
\* handler calls, every resume that ran ended at a yield, a return or a raise,
\* an event dispatched while the routine executes is refused with ValueError
\* and runs nothing, and the routine was resumed once per event that ran it.
C13_OneResumeAtATime ==
    /\ gen.state # "running"
    /\ \A i \in 1..Len(events) :
          /\ events[i].ran => events[i].after \in {"suspended", "finished"}
          /\ events[i].nested.ev # "none" =>
                /\ ~events[i].nested.ran
                /\ events[i].nested.result = Raised(ValueError)
    /\ start.called =>
          Len(gen.received) = 1 + Cardinality({i \in 1..Len(events) : events[i].ran})

C13_Witness ==
    /\ Len(events) = 1
    /\ events[1].ev = "input"
    /\ events[1].ran
    /\ events[1].nested.ev = "input"
    /\ events[1].nested.result = Raised(ValueError)
    /\ events[1].out = Yield
    /\ Active

\* C14: every call the Driver makes on a connection (setHandler at construction,
\* close() on completion) is made on the connection it was constructed with,
\* whatever connection argument the events carry.
C14_OneConnectionPerDriver ==
    \A k \in CallsOf("setHandler") \cup CallsOf("close") :
        /\ trace[k].conn \in Registered
        /\ \A f \in CallsOf("func") : trace[k].conn = trace[f].conn

\* C15: a close event handled by an ACTIVE Driver throws GeneratorExit carrying
\* the reason into the routine, which runs during that event; over all the
\* close events of a run the routine is run by a cancellation at most once.
C15_CancellationRunsRoutineOnce ==
    /\ \A i \in 1..Len(events) :
          (events[i].ev = "close" /\ events[i].before = "suspended") =>
              /\ events[i].ran
              /\ \E k \in EventCalls(i) :
                    /\ trace[k].op = "throw"
                    /\ trace[k].arg = <<"GeneratorExit", events[i].arg>>
    /\ Cardinality({i \in 1..Len(events) : events[i].ev = "close" /\ events[i].ran}) <= 1

\* C16: when the routine answers the GeneratorExit of a close event by raising
\* something that is neither GeneratorExit nor StopIteration, handle_close
\* raises exactly that to its caller and makes no close() call.
C16_OtherFailureOnCloseEventPropagates ==
    \A i \in 1..Len(events) :
        (/\ events[i].ev = "close"
         /\ events[i].ran
         /\ events[i].out.t = "raise"
         /\ events[i].out.exc.cls \notin {"GeneratorExit", "StopIteration"}) =>
            /\ events[i].result = Raised(events[i].out.exc)
            /\ EventCloses(i) = {}

C16_Witness ==
    /\ Len(events) = 1
    /\ events[1].ev = "close"
    /\ events[1].ran
    /\ events[1].out = Raise(E2)
    /\ events[1].result = Raised(E2)
    /\ CallsOf("close") = {}

\* C17: a connection-start makes its calls in this order: the connection
\* adapter (if any), the generator function, gen.next(), setHandler; each at
\* most once, and before the connection-start (while the adapter is only being
\* constructed) nothing is called at all.
C17_StartOrder ==
    /\ ~start.called => trace = <<>>
    /\ start.called =>
          /\ Cardinality(CallsOf("func")) = 1
          /\ Cardinality(CallsOf("next") \cap StartCalls) = 1
          /\ Cardinality(CallsOf("connection_adapter")) =
                (IF adapter.connection_adapter # "none" THEN 1 ELSE 0)
          /\ \A f \in CallsOf("func") :
                /\ \A a \in CallsOf("connection_adapter") : a < f
                /\ \A n \in CallsOf("next") : f < n
          /\ \A s \in CallsOf("setHandler") :
                \E n \in CallsOf("next") \cap StartCalls : n < s

C17_Witness ==
    /\ start.called
    /\ adapter.connection_adapter # "none"
    /\ Len(trace) = 5
    /\ trace[1].op = "connection_adapter"
    /\ trace[2].op = "func"
    /\ trace[3].op = "next"
    /\ trace[5].op = "setHandler"

\* C18: the callable obtained on an instance, called with a connection, does
\* what the Handler called with (instance, connection) does: same calls with
\* the same arguments, same result, same Driver, same generator, same
\* registration; and the Handler accessed with no instance is the Handler.
C18_BoundFormEqualsFreeForm ==
    /\ adapter.type = "Handler" => Handler_get(adapter, "none") = adapter
    /\ (start.called /\ start.form = "bound") =>
          LET c == Handler_call(adapter, start.prefix, start.conn, start.out)
          IN  /\ start.result = c.result
              /\ driver = c.driver
              /\ Registered = c.handlers
              /\ SubSeq(trace, 1, Cardinality(StartCalls)) = c.calls
              /\ events = <<>> => gen = c.gen

C18_Witness ==
    /\ start.called
    /\ start.form = "bound"
    /\ start.prefix = <<"inst">>
    /\ adapter.connection_adapter # "none"
    /\ Registered # {}
    /\ Len(events) = 1

\* C19: once the routine has ended, no step changes the generator again: it
\* stays finished and is resumed with nothing more, so the Driver never
\* returns to ACTIVE.
C19_DoneIsAbsorbing ==
    [][gen.state = "finished" =>
          /\ gen'.state = "finished"
          /\ gen'.received = gen.received
          /\ ~Active']_vars

C19_Witness ==
    /\ Len(events) = 2
    /\ events[1].ev = "input"
    /\ events[1].out = Raise(E1)
    /\ events[2].ev = "exception"
    /\ events[2].before = "finished"
    /\ ~events[2].ran
    /\ Done

\* C20: setHandler is called at most once, by the connection-start; no event
\* makes the Driver call it again, and no event changes which connection has
\* the Driver as handler.
C20_RegistersOnceAtConstruction ==
    /\ Cardinality(CallsOf("setHandler")) <= 1
    /\ CallsOf("setHandler") \subseteq StartCalls
    /\ Registered = {trace[k].conn : k \in CallsOf("setHandler") \cap StartCalls}

C20_Witness ==
    /\ Len(events) = 2
    /\ events[1].ev = "input"
    /\ events[1].out = Yield
    /\ events[2].ev = "close"
    /\ Cardinality(CallsOf("setHandler")) = 1

====
